---- MODULE Spec2Model ----
(***************************************************************************)
(* VideoAnalyzer plugin (Plugin/VideoAnalyzer): the pipeline               *)
(*   resolve -> [screenshots] -> extract audio -> transcribe ->            *)
(*   generate -> save -> cleanup                                           *)
(* run by VideoAnalyzer.analyze, with two runs sharing one filesystem.     *)
(***************************************************************************)
EXTENDS Integers, Sequences, FiniteSets, TLC

VARIABLES
    config,       \* VideoAnalyzer.config (read once from the environment)
    env,          \* what the tools, endpoints and filesystem may do in this behaviour
    request,      \* per run: the stdin request {url, mode}
    fs,           \* the filesystem: path -> content of every existing file/dir
    pc,           \* per run: position in main / analyze
    video_path,   \* per run: local variable video_path of analyze
    audio_path,   \* per run: local variable audio_path of analyze
    screenshots,  \* per run: local variable screenshots of analyze
    frames,       \* per run: ScreenshotExtractor.extract's loop state
    transcript,   \* per run: local variable transcript of analyze
    result,       \* per run: the dict result of analyze
    response,     \* per run: what main prints, and its exit code
    calls,        \* per run: history of the component calls made by analyze
    failed,       \* per run: the stages in which a call failed (tool, endpoint, I/O)
    cleanupLog,   \* per run: history of _cleanup's loop iterations
    handed,       \* per run: the record as it was when handed to save
    issued,       \* per run: history of the external processes run and requests sent
    probe         \* harness state of the pure-function specifications

vars == <<config, env, request, fs, pc, video_path, audio_path, screenshots, frames,
          transcript, result, response, calls, failed, cleanupLog, handed, issued, probe>>

runVars == <<config, env, request, pc, video_path, audio_path, screenshots, frames,
             transcript, result, response, calls, failed, cleanupLog, handed, issued>>

(***************************************************************************)
(* Bounds and program constants                                            *)
(***************************************************************************)
\* the two concurrent runs (two plugin processes)
Runs == {"r1", "r2"}

\* Duration: HH:MM:SS.ff is parsed to seconds with two decimals; durations
\* are counted in 1/TicksPerSecond s
TicksPerSecond == 100

\* defaults of SCREENSHOT_INTERVAL and MAX_SCREENSHOTS
DefaultScreenshotInterval == 30
DefaultMaxScreenshots == 10

\* largest duration (in seconds) / interval / count drawn for _calculate_timestamps
MaxProbeSeconds == 3
MaxProbeInterval == 2
MaxProbeCount == 2

NoPath == <<>>
NoText == "None"
EmptyMap == [k \in {} |-> NoPath]

\* one subprocess.run / requests.post: which tool or endpoint, for a frame the
\* timestamp it was run at, and whether it delivered
External(call, at, ok) == [call |-> call, at |-> at, ok |-> ok]

Modes == {"download", "transcribe", "summary", "analyze"}

(***************************************************************************)
(* Paths.  uuid.uuid4() is taken to be fresh: the id drawn by run r for    *)
(* purpose p is the pair (r, p), different from every other id.            *)
(***************************************************************************)
InputClip == <<"in", "clip", ".mp4">>
InputDoc == <<"in", "doc", ".txt">>

VideoId(r) == r
TempVideo(r) == <<"temp", r, ".mp4">>
TempAudio(r) == <<"temp", r, ".wav">>
OutDir(vid) == <<"out", vid>>
OutFile(vid, name) == <<"out", vid, name>>
ScreenshotDir(vid) == <<"out", vid, "screenshots">>
\* the decimal digits of n >= 0, most significant first
RECURSIVE Digits(_)
Digits(n) == IF n < 10 THEN <<n>> ELSE Append(Digits(n \div 10), n % 10)

\* f"{i:03d}": the digits of i, padded with zeros on the left to three
Format03d(i) ==
    LET d == Digits(i)
    IN  IF Len(d) >= 3 THEN d ELSE [k \in 1..(3 - Len(d)) |-> 0] \o d

\* f"screenshot_{i:03d}.jpg"
ScreenshotName(i) == [stem |-> "screenshot_", digits |-> Format03d(i), ext |-> ".jpg"]

ScreenshotPath(vid, i) == <<"out", vid, "screenshots", ScreenshotName(i)>>

Exists(f, p) == p \in DOMAIN f
Suffix(p) == p[Len(p)]

DirContent == <<"dir">>

\* open(path, 'a') + write: what this call wrote follows what the file held
WriteFile_Appends(f, p, c) ==
    [q \in DOMAIN f \cup {p} |->
        IF q = p THEN (IF p \in DOMAIN f THEN Append(f[p], c) ELSE <<c>>) ELSE f[q]]

\* open(path, 'w') + write: the file holds exactly what this call wrote
WriteFile(f, p, c) == [q \in DOMAIN f \cup {p} |-> IF q = p THEN <<c>> ELSE f[q]]

\* mkdir(parents=True, exist_ok=True)
MakeDirs(f, p) == [q \in DOMAIN f \cup {p} |-> IF q \in DOMAIN f THEN f[q] ELSE DirContent]

\* Path.unlink()
Unlink(f, p) == [q \in DOMAIN f \ {p} |-> f[q]]

(***************************************************************************)
(* Source Resolver (video_downloader.py)                                   *)
(* A url is [prefix, path]: prefix is "" (a bare path), "file://" or       *)
(* "https://".                                                             *)
(***************************************************************************)
LocalClip == [prefix |-> "", path |-> InputClip]
FileUriClip == [prefix |-> "file://", path |-> InputClip]
LocalDoc == [prefix |-> "", path |-> InputDoc]
RemoteUrl == [prefix |-> "https://", path |-> <<"example.com", "v", ".mp4">>]

Urls == {LocalClip, FileUriClip, LocalDoc, RemoteUrl}

StartsWithHttp(url) == url.prefix \in {"http://", "https://"}
HasColon(url) == url.prefix # ""

IsLocalFile(f, url) ==
    \/ (url.prefix = "" /\ Exists(f, url.path))
    \/ url.prefix = "file://"
    \/ (HasColon(url) /\ ~StartsWithHttp(url))

ValidExtensions == {".mp4", ".avi", ".mov", ".mkv", ".webm", ".flv", ".m4v"}

\* _handle_local_file answering with the path of a copy in the temp directory
HandleLocalFile_ReturnsCopy(f, url) ==
    LET path == url.path
    IN  IF ~Exists(f, path) THEN [raised |-> TRUE, path |-> NoPath]
        ELSE IF f[path] = DirContent THEN [raised |-> TRUE, path |-> NoPath]
        ELSE IF Suffix(path) \notin ValidExtensions THEN [raised |-> TRUE, path |-> NoPath]
        ELSE [raised |-> FALSE, path |-> <<"temp", "copy", Suffix(path)>>]

\* returns the absolute path of the very file named, or raises
HandleLocalFile(f, url) ==
    LET path == url.path
    IN  IF ~Exists(f, path) THEN [raised |-> TRUE, path |-> NoPath]
        ELSE IF f[path] = DirContent THEN [raised |-> TRUE, path |-> NoPath]
        ELSE IF Suffix(path) \notin ValidExtensions THEN [raised |-> TRUE, path |-> NoPath]
        ELSE [raised |-> FALSE, path |-> path]

\* yt-dlp run once for run r; ok is whether it exits 0 and left its file
\* (it cannot for a reference that is no http(s) URL)
DownloadRemoteVideo(f, url, r, ok) ==
    IF ok /\ StartsWithHttp(url)
    THEN [raised |-> FALSE, path |-> TempVideo(r),
          fs |-> WriteFile(f, TempVideo(r), "video"),
          issued |-> <<External("yt_dlp", <<>>, TRUE)>>]
    ELSE [raised |-> TRUE, path |-> NoPath, fs |-> f,
          issued |-> <<External("yt_dlp", <<>>, FALSE)>>]

Download(f, url, r, ok) ==
    IF IsLocalFile(f, url)
    THEN LET h == HandleLocalFile(f, url)
         IN  [raised |-> h.raised, path |-> h.path, fs |-> f, external |-> FALSE,
              issued |-> <<>>]
    ELSE LET d == DownloadRemoteVideo(f, url, r, ok)
         IN  [raised |-> d.raised, path |-> d.path, fs |-> d.fs, external |-> TRUE,
              issued |-> d.issued]

(***************************************************************************)
(* Frame Sampler (screenshot_extractor.py)                                 *)
(***************************************************************************)
Abs(n) == IF n < 0 THEN -n ELSE n
Min(a, b) == IF a < b THEN a ELSE b

\* Python int(n / d) for d # 0: the quotient truncated toward zero
TruncDiv(n, d) ==
    IF (n >= 0) = (d > 0) THEN Abs(n) \div Abs(d) ELSE -(Abs(n) \div Abs(d))

\* the timestamp num / den seconds
Timestamp(num, den) == [num |-> num, den |-> den]

\* the timestamps with step = duration / count
CalculateTimestamps_StepByCount(duration, interval, max_count) ==
    IF interval = 0 THEN [raised |-> TRUE, timestamps |-> <<>>]
    ELSE LET possible_count == TruncDiv(duration, TicksPerSecond * interval)
             count == Min(possible_count, max_count)
         IN  IF count <= 0 THEN [raised |-> FALSE, timestamps |-> <<>>]
             ELSE [raised |-> FALSE,
                   timestamps |-> [i \in 1..count |->
                       Timestamp(duration * i, TicksPerSecond * count)]]

\* duration is in ticks; interval is in seconds.  step = duration / (count + 1),
\* timestamp i = step * i
CalculateTimestamps(duration, interval, max_count) ==
    IF interval = 0 THEN [raised |-> TRUE, timestamps |-> <<>>]
    ELSE LET possible_count == TruncDiv(duration, TicksPerSecond * interval)
             count == Min(possible_count, max_count)
         IN  IF count <= 0 THEN [raised |-> FALSE, timestamps |-> <<>>]
             ELSE [raised |-> FALSE,
                   timestamps |-> [i \in 1..count |->
                       Timestamp(duration * i, TicksPerSecond * (count + 1))]]

(***************************************************************************)
(* Result Persister (result_saver.py)                                      *)
(***************************************************************************)
\* the Markdown document, by its parts; now is datetime.now() to the second
GenerateMarkdown(res, shots, now) ==
    [url |-> res.url,
     mode |-> res.mode,
     time |-> now,
     shots |-> IF Len(shots) > 0 THEN shots ELSE <<>>,
     content |-> res.content,
     transcript |-> IF "transcript" \in DOMAIN res /\ res.transcript # res.content
                    THEN res.transcript ELSE NoText]

\* json.dump(result): the whole record as it is at the call
JsonDump(res) == [json |-> res]

SaveFailPoints == {"none", "mkdir", "transcript", "markdown", "notes", "json"}

\* save without its except clause: an exception inside leaves save
Save_Propagates(f, res, vid, shots, now, failAt) ==
    LET f1 == MakeDirs(f, OutDir(vid))
        f2 == WriteFile(f1, OutFile(vid, "transcript.txt"), res.transcript)
        f3 == WriteFile(f2, OutFile(vid, "notes.md"), GenerateMarkdown(res, shots, now))
        f4 == WriteFile(f3, OutFile(vid, "result.json"), JsonDump(res))
        all == ("transcript" :> OutFile(vid, "transcript.txt"))
               @@ ("notes" :> OutFile(vid, "notes.md"))
               @@ ("json" :> OutFile(vid, "result.json"))
    IN  IF failAt = "mkdir" THEN [fs |-> f, saved_files |-> EmptyMap, raised |-> TRUE]
        ELSE IF failAt = "transcript" THEN [fs |-> f1, saved_files |-> EmptyMap, raised |-> TRUE]
        ELSE IF failAt \in {"markdown", "notes"} THEN [fs |-> f2, saved_files |-> EmptyMap, raised |-> TRUE]
        ELSE IF failAt = "json" THEN [fs |-> f3, saved_files |-> EmptyMap, raised |-> TRUE]
        ELSE [fs |-> f4, saved_files |-> all, raised |-> FALSE]

\* save(result, video_id, screenshots); failAt is where an exception occurs inside
\* the try block ("none": nowhere).  Every exception is caught and {} returned.
Save(f, res, vid, shots, now, failAt) ==
    LET f1 == MakeDirs(f, OutDir(vid))
        hasT == "transcript" \in DOMAIN res
        f2 == IF hasT THEN WriteFile(f1, OutFile(vid, "transcript.txt"), res.transcript) ELSE f1
        s2 == IF hasT THEN ("transcript" :> OutFile(vid, "transcript.txt")) ELSE EmptyMap
        hasC == "content" \in DOMAIN res
        f3 == IF hasC THEN WriteFile(f2, OutFile(vid, "notes.md"), GenerateMarkdown(res, shots, now)) ELSE f2
        s3 == IF hasC THEN s2 @@ ("notes" :> OutFile(vid, "notes.md")) ELSE s2
        f4 == WriteFile(f3, OutFile(vid, "result.json"), JsonDump(res))
        s4 == s3 @@ ("json" :> OutFile(vid, "result.json"))
    IN  IF failAt = "mkdir" THEN [fs |-> f, saved_files |-> EmptyMap, raised |-> FALSE]
        ELSE IF failAt = "transcript" /\ hasT THEN [fs |-> f1, saved_files |-> EmptyMap, raised |-> FALSE]
        ELSE IF failAt \in {"markdown", "notes"} /\ hasC THEN [fs |-> f2, saved_files |-> EmptyMap, raised |-> FALSE]
        ELSE IF failAt = "json" THEN [fs |-> f3, saved_files |-> EmptyMap, raised |-> FALSE]
        ELSE [fs |-> f4, saved_files |-> s4, raised |-> FALSE]

(***************************************************************************)
(* Orchestrator (VideoAnalyzer.py)                                         *)
(***************************************************************************)
\* what the external services / tools can answer
Transcripts == {"t1"}
Contents == {"n1", "t1"}
\* probed durations in ticks: 0 is "no Duration line"; with the default interval
\* 45 s gives one timestamp and 70 s two
Durations == {0, 4500, 7000}
\* datetime.now() readings, in seconds
Clock == {1, 2}

Requests == [url : Urls, mode : Modes]

\* env.faults: whether tools, endpoints and filesystem calls may fail for reasons
\* outside the run (exit codes, HTTP errors, I/O errors, a clock that advances);
\* without faults a call fails only for a cause the model shows (a missing file)
Envs == [faults : BOOLEAN]
Oks == IF env.faults THEN BOOLEAN ELSE {TRUE}
ProbedDurations == IF env.faults THEN Durations ELSE Durations \ {0}
ClockReadings == IF env.faults THEN Clock ELSE {1}
SaveFaults == IF env.faults THEN SaveFailPoints ELSE {"none"}

\* a key or URL read from the environment: empty (unset) or set
Credentials == {"", "set"}

Configs ==
    [enable_screenshots : BOOLEAN,
     keep_temp_files : BOOLEAN,
     screenshot_interval : {DefaultScreenshotInterval},
     max_screenshots : {DefaultMaxScreenshots},
     whisper_api_key : Credentials,
     whisper_api_url : Credentials,
     ai_api_key : Credentials,
     ai_api_url : Credentials]

InitialFiles == (InputClip :> <<"video">>) @@ (InputDoc :> <<"text">>)

NoResponse == [status |-> "none", exit |-> 0]
SuccessResponse == [status |-> "success", exit |-> 0]
ErrorResponse == [status |-> "error", exit |-> 1]

NoFrames == [timestamps |-> <<>>, next |-> 1]
NoProbe == [kind |-> "none"]

\* Transcriber.__init__ and NoteGenerator.__init__ raise on an empty key or URL
TranscriberInitRaises_KeyOnly(cfg) == cfg.whisper_api_key = ""

\* Transcriber.__init__: if not self.api_key: raise; if not self.api_url: raise
TranscriberInitRaises(cfg) == cfg.whisper_api_key = "" \/ cfg.whisper_api_url = ""

\* NoteGenerator.__init__: if not self.api_key: raise; if not self.api_url: raise
NoteGeneratorInitRaises(cfg) == cfg.ai_api_key = "" \/ cfg.ai_api_url = ""

\* VideoAnalyzer.__init__ builds every component, whatever the mode will be
ConstructorRaises(cfg) == TranscriberInitRaises(cfg) \/ NoteGeneratorInitRaises(cfg)

IsDownloadOnly_Never(mode) == FALSE

\* if mode == 'download': return result
IsDownloadOnly(mode) == mode = "download"

WantsScreenshots_AnyMode(cfg, mode) == cfg.enable_screenshots

\* if self.config['enable_screenshots'] and mode != 'transcribe'
WantsScreenshots(cfg, mode) == cfg.enable_screenshots /\ mode # "transcribe"

GeneratorCall_Swapped(mode) == IF mode = "summary" THEN "generate_notes" ELSE "generate_summary"

\* mode == 'summary' -> generate_summary; else -> generate_notes
GeneratorCall(mode) == IF mode = "summary" THEN "generate_summary" ELSE "generate_notes"

\* mode == 'transcribe': result['content'] = transcript, no generator call
NeedsGenerator(mode) == mode # "transcribe"

\* the two assignments after save, the second one overwriting the content field
WithSavedFiles_OverwritesContent(res, saved_files, shots) ==
    ("saved_files" :> saved_files) @@ ("content" :> shots) @@ res

\* result['saved_files'] = saved_files; result['screenshots'] = screenshots
WithSavedFiles(res, saved_files, shots) ==
    ("saved_files" :> saved_files) @@ ("screenshots" :> shots) @@ res

\* if not self.config['keep_temp_files']: self._cleanup(video_path, audio_path)
AfterSave(cfg) == IF cfg.keep_temp_files THEN "done" ELSE "cleanup_video"

\* _cleanup without its try/except: a failed unlink leaves _cleanup as an exception
CleanupPath_RaisesOnFailure(f, path, unlink_ok) ==
    IF path # NoPath /\ Exists(f, path)
    THEN IF unlink_ok
         THEN [fs |-> Unlink(f, path), raised |-> FALSE,
               entry |-> [path |-> path, existed |-> TRUE, attempted |-> TRUE, deleted |-> TRUE]]
         ELSE [fs |-> f, raised |-> TRUE,
               entry |-> [path |-> path, existed |-> TRUE, attempted |-> TRUE, deleted |-> FALSE]]
    ELSE [fs |-> f, raised |-> FALSE,
          entry |-> [path |-> path, existed |-> FALSE, attempted |-> FALSE, deleted |-> FALSE]]

\* one iteration of _cleanup's loop; unlink_ok is whether Path.unlink() succeeds
CleanupPath(f, path, unlink_ok) ==
    IF path # NoPath /\ Exists(f, path)
    THEN IF unlink_ok
         THEN [fs |-> Unlink(f, path), raised |-> FALSE,
               entry |-> [path |-> path, existed |-> TRUE, attempted |-> TRUE, deleted |-> TRUE]]
         ELSE [fs |-> f, raised |-> FALSE,
               entry |-> [path |-> path, existed |-> TRUE, attempted |-> TRUE, deleted |-> FALSE]]
    ELSE [fs |-> f, raised |-> FALSE,
          entry |-> [path |-> path, existed |-> FALSE, attempted |-> FALSE, deleted |-> FALSE]]

Call(stage, ready) == [stage |-> stage, ready |-> ready]

\* the state before any run has started; active is the set of runs main is run for
InitWith(active, cfgs, envs, reqs) ==
    /\ config \in cfgs
    /\ env \in envs
    /\ request \in [Runs -> reqs]
    /\ \A r \in Runs : r \notin active => request[r] = [url |-> LocalClip, mode |-> "download"]
    /\ fs = InitialFiles
    /\ pc = [r \in Runs |-> IF r \in active THEN "main" ELSE "off"]
    /\ video_path = [r \in Runs |-> NoPath]
    /\ audio_path = [r \in Runs |-> NoPath]
    /\ screenshots = [r \in Runs |-> <<>>]
    /\ frames = [r \in Runs |-> NoFrames]
    /\ transcript = [r \in Runs |-> NoText]
    /\ result = [r \in Runs |-> EmptyMap]
    /\ response = [r \in Runs |-> NoResponse]
    /\ calls = [r \in Runs |-> <<>>]
    /\ failed = [r \in Runs |-> {}]
    /\ cleanupLog = [r \in Runs |-> <<>>]
    /\ handed = [r \in Runs |-> EmptyMap]
    /\ issued = [r \in Runs |-> <<>>]

\* one run, alone on the machine
Init ==
    /\ InitWith({"r1"}, Configs, Envs, Requests)
    /\ probe = NoProbe

\* two runs at once, both configured, on inputs that resolve, and no faults
ConcurrentConfigs == {c \in Configs : ~ConstructorRaises(c)}
ConcurrentRequests == [url : {LocalClip, RemoteUrl}, mode : Modes]
InitConcurrent ==
    /\ InitWith(Runs, ConcurrentConfigs, {[faults |-> FALSE]}, ConcurrentRequests)
    /\ probe = NoProbe

\* an except clause that runs _cleanup before re-raising
ExceptClause_CleansUp(f, cfg, video, audio) ==
    IF cfg.keep_temp_files THEN f
    ELSE CleanupPath(CleanupPath(f, video, TRUE).fs, audio, TRUE).fs

\* analyze's except clause: it logs and re-raises, and leaves every file alone
ExceptClause(f, cfg, video, audio) == f

\* analyze's except clause re-raises; main prints status error and exits 1
Raise(r, stage) ==
    /\ pc' = [pc EXCEPT ![r] = "error"]
    /\ response' = [response EXCEPT ![r] = ErrorResponse]
    /\ failed' = [failed EXCEPT ![r] = @ \cup {stage}]

\* analyze returns; main prints status success
Return(r) ==
    /\ pc' = [pc EXCEPT ![r] = "done"]
    /\ response' = [response EXCEPT ![r] = SuccessResponse]

\* main: analyzer = VideoAnalyzer()
Main(r) ==
    /\ pc[r] = "main"
    /\ IF ConstructorRaises(config)
       THEN Raise(r, "construct")
       ELSE /\ pc' = [pc EXCEPT ![r] = "resolve"]
            /\ UNCHANGED <<response, failed>>
    /\ UNCHANGED <<config, env, request, fs, video_path, audio_path, screenshots, frames,
                   transcript, result, calls, cleanupLog, handed, issued, probe>>

\* video_path = self.downloader.download(url), and the download-mode return
Resolve(r) ==
    /\ pc[r] = "resolve"
    /\ \E ok \in Oks :
        /\ LET d == Download(fs, request[r].url, r, ok)
               mode == request[r].mode
           IN  /\ calls' = [calls EXCEPT ![r] = Append(@, Call("resolve", TRUE))]
               /\ issued' = [issued EXCEPT ![r] = @ \o d.issued]
               /\ IF d.raised
                  THEN /\ Raise(r, "resolve")
                       /\ UNCHANGED <<fs, video_path, result>>
                  ELSE /\ fs' = d.fs
                       /\ video_path' = [video_path EXCEPT ![r] = d.path]
                       /\ IF IsDownloadOnly(mode)
                          THEN /\ result' = [result EXCEPT ![r] =
                                      [url |-> request[r].url, mode |-> mode,
                                       video_id |-> VideoId(r), video_path |-> d.path,
                                       content |-> <<"downloaded", d.path>>]]
                               /\ Return(r)
                               /\ UNCHANGED failed
                          ELSE /\ pc' = [pc EXCEPT ![r] =
                                      IF WantsScreenshots(config, mode)
                                      THEN "screenshots" ELSE "audio"]
                               /\ UNCHANGED <<result, response, failed>>
    /\ UNCHANGED <<config, env, request, audio_path, screenshots, frames, transcript,
                   cleanupLog, handed, probe>>

\* extract without its except clause: a failure leaves the stage as an exception
ExtractSetup_Propagates(f, cfg, video, vid, mkdir_ok, probed) ==
    IF ~cfg.enable_screenshots
    THEN [fs |-> f, timestamps |-> <<>>, failure |-> FALSE, raised |-> FALSE,
          issued |-> <<>>]
    ELSE IF ~mkdir_ok
    THEN [fs |-> f, timestamps |-> <<>>, failure |-> TRUE, raised |-> TRUE,
          issued |-> <<>>]
    ELSE LET f1 == MakeDirs(MakeDirs(f, OutDir(vid)), ScreenshotDir(vid))
             duration == IF Exists(f, video) THEN probed ELSE 0
             ts == CalculateTimestamps(duration, cfg.screenshot_interval, cfg.max_screenshots)
             run == <<External("ffmpeg_duration", <<>>, duration > 0)>>
         IN  IF duration <= 0
             THEN [fs |-> f1, timestamps |-> <<>>, failure |-> TRUE, raised |-> FALSE,
                   issued |-> run]
             ELSE IF ts.raised
             THEN [fs |-> f1, timestamps |-> <<>>, failure |-> TRUE, raised |-> TRUE,
                   issued |-> run]
             ELSE [fs |-> f1, timestamps |-> ts.timestamps, failure |-> FALSE, raised |-> FALSE,
                   issued |-> run]

\* ScreenshotExtractor.extract up to its loop: the directory, the duration probe
\* and the timestamps.  Every exception is caught and [] returned.
ExtractSetup(f, cfg, video, vid, mkdir_ok, probed) ==
    IF ~cfg.enable_screenshots
    THEN [fs |-> f, timestamps |-> <<>>, failure |-> FALSE, raised |-> FALSE,
          issued |-> <<>>]
    ELSE IF ~mkdir_ok
    THEN [fs |-> f, timestamps |-> <<>>, failure |-> TRUE, raised |-> FALSE,
          issued |-> <<>>]
    ELSE LET f1 == MakeDirs(MakeDirs(f, OutDir(vid)), ScreenshotDir(vid))
             duration == IF Exists(f, video) THEN probed ELSE 0
             ts == CalculateTimestamps(duration, cfg.screenshot_interval, cfg.max_screenshots)
             run == <<External("ffmpeg_duration", <<>>, duration > 0)>>
         IN  IF duration <= 0
             THEN [fs |-> f1, timestamps |-> <<>>, failure |-> TRUE, raised |-> FALSE,
                   issued |-> run]
             ELSE IF ts.raised
             THEN [fs |-> f1, timestamps |-> <<>>, failure |-> TRUE, raised |-> FALSE,
                   issued |-> run]
             ELSE [fs |-> f1, timestamps |-> ts.timestamps, failure |-> FALSE, raised |-> FALSE,
                   issued |-> run]

\* _extract_frame without its failure handling: a failed ffmpeg run is raised
ExtractFrameAt_Raises(f, video, timestamp, out, ok) ==
    IF ok /\ Exists(f, video)
    THEN [fs |-> WriteFile(f, out, "jpeg"), produced |-> TRUE, raised |-> FALSE,
          issued |-> <<External("ffmpeg_frame", <<timestamp>>, TRUE)>>]
    ELSE [fs |-> f, produced |-> FALSE, raised |-> TRUE,
          issued |-> <<External("ffmpeg_frame", <<timestamp>>, FALSE)>>]

\* _extract_frame: ffmpeg run once for one timestamp; ok is whether it exits 0
\* and left the file.  Returns False instead of raising.
ExtractFrameAt(f, video, timestamp, out, ok) ==
    IF ok /\ Exists(f, video)
    THEN [fs |-> WriteFile(f, out, "jpeg"), produced |-> TRUE, raised |-> FALSE,
          issued |-> <<External("ffmpeg_frame", <<timestamp>>, TRUE)>>]
    ELSE [fs |-> f, produced |-> FALSE, raised |-> FALSE,
          issued |-> <<External("ffmpeg_frame", <<timestamp>>, FALSE)>>]

\* AudioExtractor.extract: ffmpeg run once; ok is whether it exits 0 and left the file
ExtractAudioFrom(f, video, r, ok) ==
    IF ok /\ Exists(f, video)
    THEN [fs |-> WriteFile(f, TempAudio(r), "audio"), path |-> TempAudio(r), raised |-> FALSE,
          issued |-> <<External("ffmpeg_audio", <<>>, TRUE)>>]
    ELSE [fs |-> f, path |-> NoPath, raised |-> TRUE,
          issued |-> <<External("ffmpeg_audio", <<>>, FALSE)>>]

\* answers of the two endpoints: a text, or a failure (non-200, timeout, malformed)
HttpFailure == "HTTP500"
TranscribeAnswers(faults) == IF faults THEN Transcripts \cup {HttpFailure} ELSE Transcripts
AIAnswers(faults) == IF faults THEN Contents \cup {HttpFailure} ELSE {"n1"}

\* transcribe with a second POST after a failed one
TranscribeAudio_Retries(f, audio, answer) ==
    IF ~Exists(f, audio)
    THEN [text |-> NoText, raised |-> TRUE, posted |-> FALSE, issued |-> <<>>]
    ELSE IF answer = HttpFailure
    THEN [text |-> NoText, raised |-> TRUE, posted |-> TRUE,
          issued |-> <<External("whisper", <<>>, FALSE), External("whisper", <<>>, FALSE)>>]
    ELSE [text |-> answer, raised |-> FALSE, posted |-> TRUE,
          issued |-> <<External("whisper", <<>>, TRUE)>>]

\* transcribe without the status check: a failed answer is returned as the text
TranscribeAudio_IgnoresStatus(f, audio, answer) ==
    IF ~Exists(f, audio)
    THEN [text |-> NoText, raised |-> TRUE, posted |-> FALSE, issued |-> <<>>]
    ELSE [text |-> answer, raised |-> FALSE, posted |-> TRUE,
          issued |-> <<External("whisper", <<>>, answer # HttpFailure)>>]

\* Transcriber.transcribe: one POST
TranscribeAudio(f, audio, answer) ==
    IF ~Exists(f, audio)
    THEN [text |-> NoText, raised |-> TRUE, posted |-> FALSE, issued |-> <<>>]
    ELSE IF answer = HttpFailure
    THEN [text |-> NoText, raised |-> TRUE, posted |-> TRUE,
          issued |-> <<External("whisper", <<>>, FALSE)>>]
    ELSE [text |-> answer, raised |-> FALSE, posted |-> TRUE,
          issued |-> <<External("whisper", <<>>, TRUE)>>]

\* NoteGenerator._call_ai: one POST
CallAI(answer) ==
    IF answer = HttpFailure
    THEN [text |-> NoText, raised |-> TRUE, issued |-> <<External("ai", <<>>, FALSE)>>]
    ELSE [text |-> answer, raised |-> FALSE, issued |-> <<External("ai", <<>>, TRUE)>>]

\* screenshots = self.screenshot_extractor.extract(video_path, video_id): entry
ExtractScreenshots(r) ==
    /\ pc[r] = "screenshots"
    /\ \E mkdir_ok \in Oks, probed \in ProbedDurations :
        LET e == ExtractSetup(fs, config, video_path[r], VideoId(r), mkdir_ok, probed)
        IN  /\ calls' = [calls EXCEPT ![r] = Append(@, Call("screenshots", video_path[r] # NoPath))]
            /\ issued' = [issued EXCEPT ![r] = @ \o e.issued]
            /\ IF e.raised
               THEN /\ Raise(r, "screenshots")
                    /\ UNCHANGED <<fs, frames>>
               ELSE /\ fs' = e.fs
                    /\ frames' = [frames EXCEPT ![r] = [timestamps |-> e.timestamps, next |-> 1]]
                    /\ failed' = [failed EXCEPT ![r] =
                           IF e.failure THEN @ \cup {"screenshots"} ELSE @]
                    /\ pc' = [pc EXCEPT ![r] =
                           IF Len(e.timestamps) = 0 THEN "audio" ELSE "frames"]
                    /\ UNCHANGED response
    /\ UNCHANGED <<config, env, request, video_path, audio_path, screenshots, transcript,
                   result, cleanupLog, handed, probe>>

\* one iteration of extract's loop over the timestamps
ExtractFrame(r) ==
    /\ pc[r] = "frames"
    /\ \E ok \in Oks :
        LET i == frames[r].next
            out == ScreenshotPath(VideoId(r), i)
            x == ExtractFrameAt(fs, video_path[r], frames[r].timestamps[i], out, ok)
        IN  /\ issued' = [issued EXCEPT ![r] = @ \o x.issued]
            /\ IF x.raised
               THEN /\ Raise(r, "frame")
                    /\ UNCHANGED <<fs, frames, screenshots>>
               ELSE /\ fs' = x.fs
                    /\ screenshots' = [screenshots EXCEPT ![r] =
                           IF x.produced THEN Append(@, out) ELSE @]
                    /\ frames' = [frames EXCEPT ![r].next = i + 1]
                    /\ failed' = [failed EXCEPT ![r] =
                           IF x.produced THEN @ ELSE @ \cup {"frame"}]
                    /\ pc' = [pc EXCEPT ![r] =
                           IF i = Len(frames[r].timestamps) THEN "audio" ELSE "frames"]
                    /\ UNCHANGED response
    /\ UNCHANGED <<config, env, request, video_path, audio_path, transcript, result,
                   calls, cleanupLog, handed, probe>>

\* audio_path = self.extractor.extract(video_path)
ExtractAudio(r) ==
    /\ pc[r] = "audio"
    /\ \E ok \in Oks :
        LET a == ExtractAudioFrom(fs, video_path[r], r, ok)
        IN  /\ calls' = [calls EXCEPT ![r] = Append(@, Call("audio", video_path[r] # NoPath))]
            /\ issued' = [issued EXCEPT ![r] = @ \o a.issued]
            /\ IF a.raised
               THEN /\ Raise(r, "audio")
                    /\ fs' = ExceptClause(fs, config, video_path[r], audio_path[r])
                    /\ UNCHANGED audio_path
               ELSE /\ fs' = a.fs
                    /\ audio_path' = [audio_path EXCEPT ![r] = a.path]
                    /\ pc' = [pc EXCEPT ![r] = "transcribe"]
                    /\ UNCHANGED <<response, failed>>
    /\ UNCHANGED <<config, env, request, video_path, screenshots, frames, transcript,
                   result, cleanupLog, handed, probe>>

\* transcript = self.transcriber.transcribe(audio_path, language); result = {...};
\* in mode transcribe result['content'] = transcript
Transcribe(r) ==
    /\ pc[r] = "transcribe"
    /\ \E answer \in TranscribeAnswers(env.faults) :
        LET t == TranscribeAudio(fs, audio_path[r], answer)
            mode == request[r].mode
            base == [url |-> request[r].url, mode |-> mode,
                     transcript |-> t.text, video_id |-> VideoId(r)]
        IN  /\ calls' = [calls EXCEPT ![r] = Append(@, Call("transcribe", audio_path[r] # NoPath))]
            /\ issued' = [issued EXCEPT ![r] = @ \o t.issued]
            /\ IF t.raised
               THEN /\ Raise(r, "transcribe")
                    /\ fs' = ExceptClause(fs, config, video_path[r], audio_path[r])
                    /\ UNCHANGED <<transcript, result>>
               ELSE /\ transcript' = [transcript EXCEPT ![r] = t.text]
                    /\ UNCHANGED fs
                    /\ result' = [result EXCEPT ![r] =
                           IF NeedsGenerator(mode) THEN base
                           ELSE ("content" :> t.text) @@ base]
                    /\ pc' = [pc EXCEPT ![r] =
                           IF NeedsGenerator(mode) THEN "generate" ELSE "save"]
                    /\ failed' = [failed EXCEPT ![r] =
                           IF answer = HttpFailure THEN @ \cup {"transcribe"} ELSE @]
                    /\ UNCHANGED response
    /\ UNCHANGED <<config, env, request, video_path, audio_path, screenshots, frames,
                   cleanupLog, handed, probe>>

\* summary = self.generator.generate_summary(transcript) /
\* notes = self.generator.generate_notes(transcript, style, custom_prompt)
Generate(r) ==
    /\ pc[r] = "generate"
    /\ \E answer \in AIAnswers(env.faults) :
        LET g == CallAI(answer)
        IN  /\ calls' = [calls EXCEPT ![r] =
                   Append(@, Call(GeneratorCall(request[r].mode), transcript[r] # NoText))]
            /\ issued' = [issued EXCEPT ![r] = @ \o g.issued]
            /\ IF g.raised
               THEN /\ Raise(r, "generate")
                    /\ fs' = ExceptClause(fs, config, video_path[r], audio_path[r])
                    /\ UNCHANGED result
               ELSE /\ result' = [result EXCEPT ![r] = ("content" :> g.text) @@ @]
                    /\ UNCHANGED fs
                    /\ pc' = [pc EXCEPT ![r] = "save"]
                    /\ failed' = [failed EXCEPT ![r] =
                           IF answer = HttpFailure THEN @ \cup {"generate"} ELSE @]
                    /\ UNCHANGED response
    /\ UNCHANGED <<config, env, request, video_path, audio_path, screenshots, frames,
                   transcript, cleanupLog, handed, probe>>

\* saved_files = self.result_saver.save(result, video_id, screenshots);
\* result['saved_files'] = ...; result['screenshots'] = ...; the keep_temp_files test
Persist(r) ==
    /\ pc[r] = "save"
    /\ \E now \in ClockReadings, failAt \in SaveFaults :
        LET s == Save(fs, result[r], VideoId(r), screenshots[r], now, failAt)
        IN  /\ calls' = [calls EXCEPT ![r] = Append(@, Call("save", "content" \in DOMAIN result[r]))]
            /\ handed' = [handed EXCEPT ![r] = result[r]]
            /\ IF s.raised
               THEN /\ Raise(r, "save")
                    /\ UNCHANGED <<fs, result>>
               ELSE /\ fs' = s.fs
                    /\ result' = [result EXCEPT ![r] =
                           WithSavedFiles(@, s.saved_files, screenshots[r])]
                    /\ failed' = [failed EXCEPT ![r] =
                           IF failAt = "none" THEN @ ELSE @ \cup {"save"}]
                    /\ IF AfterSave(config) = "done"
                       THEN Return(r)
                       ELSE /\ pc' = [pc EXCEPT ![r] = AfterSave(config)]
                            /\ UNCHANGED response
    /\ UNCHANGED <<config, env, request, video_path, audio_path, screenshots, frames,
                   transcript, cleanupLog, issued, probe>>

\* _cleanup's loop, first path: video_path
CleanupVideo(r) ==
    /\ pc[r] = "cleanup_video"
    /\ \E unlink_ok \in Oks :
        LET c == CleanupPath(fs, video_path[r], unlink_ok)
        IN  /\ calls' = [calls EXCEPT ![r] = Append(@, Call("cleanup", "saved_files" \in DOMAIN result[r]))]
            /\ cleanupLog' = [cleanupLog EXCEPT ![r] = Append(@, c.entry)]
            /\ IF c.raised
               THEN /\ Raise(r, "cleanup")
                    /\ UNCHANGED fs
               ELSE /\ fs' = c.fs
                    /\ failed' = [failed EXCEPT ![r] =
                           IF c.entry.attempted /\ ~c.entry.deleted THEN @ \cup {"cleanup"} ELSE @]
                    /\ pc' = [pc EXCEPT ![r] = "cleanup_audio"]
                    /\ UNCHANGED response
    /\ UNCHANGED <<config, env, request, video_path, audio_path, screenshots, frames,
                   transcript, result, handed, issued, probe>>

\* _cleanup's loop, second path: audio_path; then analyze returns result
CleanupAudio(r) ==
    /\ pc[r] = "cleanup_audio"
    /\ \E unlink_ok \in Oks :
        LET c == CleanupPath(fs, audio_path[r], unlink_ok)
        IN  /\ cleanupLog' = [cleanupLog EXCEPT ![r] = Append(@, c.entry)]
            /\ IF c.raised
               THEN /\ Raise(r, "cleanup")
                    /\ UNCHANGED fs
               ELSE /\ fs' = c.fs
                    /\ failed' = [failed EXCEPT ![r] =
                           IF c.entry.attempted /\ ~c.entry.deleted THEN @ \cup {"cleanup"} ELSE @]
                    /\ Return(r)
    /\ UNCHANGED <<config, env, request, video_path, audio_path, screenshots, frames,
                   transcript, result, calls, handed, issued, probe>>

Next ==
    \E r \in Runs :
        \/ Main(r)
        \/ Resolve(r)
        \/ ExtractScreenshots(r)
        \/ ExtractFrame(r)
        \/ ExtractAudio(r)
        \/ Transcribe(r)
        \/ Generate(r)
        \/ Persist(r)
        \/ CleanupVideo(r)
        \/ CleanupAudio(r)

Spec == Init /\ [][Next]_vars

SpecConcurrent == InitConcurrent /\ [][Next]_vars

(***************************************************************************)
(* _calculate_timestamps called on its own, on drawn arguments             *)
(***************************************************************************)
ProbeDurations == 1..(MaxProbeSeconds * TicksPerSecond + TicksPerSecond - 1)
ProbeIntervals == (-MaxProbeInterval)..MaxProbeInterval
ProbeCounts == (-1)..MaxProbeCount

DefaultConfig ==
    [enable_screenshots |-> TRUE, keep_temp_files |-> FALSE,
     screenshot_interval |-> DefaultScreenshotInterval,
     max_screenshots |-> DefaultMaxScreenshots,
     whisper_api_key |-> "set", whisper_api_url |-> "set",
     ai_api_key |-> "set", ai_api_url |-> "set"]

InitTimestamps ==
    /\ InitWith({}, {DefaultConfig}, {[faults |-> TRUE]}, Requests)
    /\ \E d \in ProbeDurations, i \in ProbeIntervals, m \in ProbeCounts :
        probe = [kind |-> "timestamps", duration |-> d, interval |-> i, max_count |-> m,
                 applied |-> FALSE, out |-> [raised |-> FALSE, timestamps |-> <<>>]]

\* timestamps = self._calculate_timestamps(duration), with the extractor's
\* screenshot_interval and max_screenshots
CalculateTimestampsCall ==
    /\ probe.kind = "timestamps"
    /\ ~probe.applied
    /\ probe' = [probe EXCEPT
           !.applied = TRUE,
           !.out = CalculateTimestamps(probe.duration, probe.interval, probe.max_count)]
    /\ UNCHANGED <<runVars, fs>>

NextTimestamps == CalculateTimestampsCall

SpecTimestamps == InitTimestamps /\ [][NextTimestamps]_vars

(***************************************************************************)
(* save called on its own, twice, with the same arguments                  *)
(***************************************************************************)
SaveRecords ==
    {[url |-> LocalClip, mode |-> "transcribe", transcript |-> t,
      video_id |-> VideoId("r1"), content |-> t] : t \in Transcripts}
    \cup
    {[url |-> LocalClip, mode |-> m, transcript |-> t,
      video_id |-> VideoId("r1"), content |-> c] :
        m \in {"summary", "analyze"}, t \in Transcripts, c \in Contents}

SavedShots == {<<>>, <<ScreenshotPath(VideoId("r1"), 1)>>}

\* the files under the output directory
OutputFiles(f) == [p \in {q \in DOMAIN f : q[1] = "out"} |-> f[p]]

InitSave ==
    /\ InitWith({}, {DefaultConfig}, {[faults |-> TRUE]}, Requests)
    /\ \E res \in SaveRecords, shots \in SavedShots :
        probe = [kind |-> "save", result |-> res, video_id |-> VideoId("r1"),
                 screenshots |-> shots, clock |-> 1, log |-> <<>>]

\* self.result_saver.save(result, video_id, screenshots); the clock does not go back
SaveCall ==
    /\ probe.kind = "save"
    /\ Len(probe.log) < 2
    /\ \E now \in Clock, failAt \in SaveFailPoints :
        LET s == Save(fs, probe.result, probe.video_id, probe.screenshots, now, failAt)
        IN  /\ now >= probe.clock
            /\ fs' = s.fs
            /\ probe' = [probe EXCEPT
                   !.clock = now,
                   !.log = Append(@, [ret |-> s.saved_files, raised |-> s.raised,
                                      now |-> now, failAt |-> failAt,
                                      files |-> OutputFiles(s.fs)])]
    /\ UNCHANGED runVars

NextSave == SaveCall

SpecSave == InitSave /\ [][NextSave]_vars

(***************************************************************************)
(* Properties                                                              *)
(***************************************************************************)
StageNames(r) == [i \in 1..Len(calls[r]) |-> calls[r][i].stage]
IsPrefix(s, t) == Len(s) <= Len(t) /\ \A i \in 1..Len(s) : s[i] = t[i]
Called(r, stage) == \E i \in 1..Len(calls[r]) : calls[r][i].stage = stage
RunDir(r) == OutDir(VideoId(r))
RunFile(r, name) == OutFile(VideoId(r), name)

\* the order of the stages in modes summary and analyze
StageOrder(cfg, mode) ==
    <<"resolve">>
    \o (IF cfg.enable_screenshots THEN <<"screenshots">> ELSE <<>>)
    \o <<"audio", "transcribe">>
    \o <<IF mode = "summary" THEN "generate_summary" ELSE "generate_notes">>
    \o <<"save">>
    \o (IF cfg.keep_temp_files THEN <<>> ELSE <<"cleanup">>)

\* C1: in mode summary or analyze the stages called so far are always an initial
\* part of resolve, [screenshots if enabled], audio, transcribe, generate_summary /
\* generate_notes, save, cleanup: in this order, each at most once; a finished run
\* has called them all; the Frame Sampler's loop has ended before the Audio
\* Extractor is called; and every stage is called with a value that an earlier
\* stage has already produced.
C1_StageOrder ==
    \A r \in Runs :
        request[r].mode \in {"summary", "analyze"} =>
            /\ IsPrefix(StageNames(r), StageOrder(config, request[r].mode))
            /\ \A i \in 1..Len(calls[r]) : calls[r][i].ready
            /\ pc[r] = "done" => StageNames(r) = StageOrder(config, request[r].mode)
            /\ Called(r, "audio") => frames[r].next = Len(frames[r].timestamps) + 1

C1_Witness ==
    \E r \in Runs :
        /\ request[r].mode = "summary"
        /\ pc[r] = "done"
        /\ config.enable_screenshots /\ ~config.keep_temp_files
        /\ Len(screenshots[r]) = 2
        /\ Len(calls[r]) = 7

\* C2: in mode download the only stage ever called is the Source Resolver; a
\* finished run returns the resolved video path, and nothing was extracted,
\* transcribed, generated, saved or cleaned up.
C2_DownloadOnly ==
    \A r \in Runs :
        request[r].mode = "download" =>
            /\ IsPrefix(StageNames(r), <<"resolve">>)
            /\ audio_path[r] = NoPath /\ transcript[r] = NoText
            /\ screenshots[r] = <<>> /\ cleanupLog[r] = <<>>
            /\ ~Exists(fs, RunDir(r)) /\ ~Exists(fs, TempAudio(r))
            /\ pc[r] = "done" =>
                /\ response[r] = SuccessResponse
                /\ video_path[r] # NoPath
                /\ result[r].video_path = video_path[r]
                /\ Exists(fs, video_path[r])

C2_Witness ==
    \E r \in Runs :
        /\ request[r].mode = "download"
        /\ request[r].url = RemoteUrl
        /\ pc[r] = "done"
        /\ result[r].video_path = TempVideo(r)

\* the Frame Sampler was never invoked for run r and left nothing behind
NoFrameSampling(r) ==
    /\ ~Called(r, "screenshots")
    /\ screenshots[r] = <<>>
    /\ ~Exists(fs, ScreenshotDir(VideoId(r)))

\* C3 as claimed: in mode transcribe the Frame Sampler is never invoked, the
\* screenshot list is empty, no screenshots directory exists, and a run that
\* returns has written transcript.txt and result.json and returns the transcript
\* as its content.
C3_Original ==
    \A r \in Runs :
        request[r].mode = "transcribe" =>
            /\ NoFrameSampling(r)
            /\ pc[r] = "done" =>
                /\ result[r].content = transcript[r]
                /\ Exists(fs, RunFile(r, "transcript.txt"))
                /\ Exists(fs, RunFile(r, "result.json"))

\* C3 as amended: in mode transcribe the Frame Sampler is never invoked, the
\* screenshot list is empty and no screenshots directory exists; a run that
\* returns gives the transcript as its content and an empty screenshot list; and,
\* unless the Result Persister failed internally, it has written the transcript to
\* transcript.txt and the record to result.json.
C3_TranscribeMode ==
    \A r \in Runs :
        request[r].mode = "transcribe" =>
            /\ NoFrameSampling(r)
            /\ pc[r] = "done" =>
                /\ response[r] = SuccessResponse
                /\ result[r].content = transcript[r]
                /\ transcript[r] \in Transcripts
                /\ result[r].screenshots = <<>>
                /\ "save" \notin failed[r] =>
                    /\ Exists(fs, RunFile(r, "transcript.txt"))
                    /\ fs[RunFile(r, "transcript.txt")] = <<transcript[r]>>
                    /\ Exists(fs, RunFile(r, "result.json"))
                    /\ fs[RunFile(r, "result.json")] = <<JsonDump(handed[r])>>

C3_Witness ==
    \E r \in Runs :
        /\ request[r].mode = "transcribe"
        /\ config.enable_screenshots
        /\ pc[r] = "done"
        /\ "save" \notin failed[r]
        /\ Exists(fs, RunFile(r, "transcript.txt"))
        /\ ~Exists(fs, ScreenshotDir(VideoId(r)))

FatalStages == {"resolve", "audio", "transcribe", "generate"}
SamplerFailures == {"screenshots", "frame"}
LastStage(r) == calls[r][Len(calls[r])].stage
StageOfFailure(r, stage) ==
    IF stage = "generate" THEN GeneratorCall(request[r].mode) ELSE stage

\* C4 as claimed: once any of the stages 1 to 5 (Source Resolver, Frame Sampler,
\* Audio Extractor, Transcription Client, Note Generator) has failed, the run has
\* ended with an error.
C4_Original ==
    \A r \in Runs :
        failed[r] \cap (FatalStages \cup SamplerFailures) # {} => pc[r] = "error"

\* C4 as amended: a failure of the Source Resolver, the Audio Extractor, the
\* Transcription Client or the Note Generator ends the run with an error at once,
\* the failed stage being the last one called; a failure inside the Frame Sampler
\* (directory, duration probe, timestamps, a frame) is swallowed: alone it never
\* ends the run with an error.
C4_FailurePropagation ==
    \A r \in Runs :
        /\ \A stage \in FatalStages :
            stage \in failed[r] =>
                /\ pc[r] = "error"
                /\ response[r] = ErrorResponse
                /\ LastStage(r) = StageOfFailure(r, stage)
        /\ pc[r] = "error" => failed[r] \cap (FatalStages \cup {"construct"}) # {}

C4_Witness ==
    \E r \in Runs :
        /\ "screenshots" \in failed[r]
        /\ "audio" \in failed[r]
        /\ pc[r] = "error"
        /\ LastStage(r) = "audio"

\* C5: once the Transcription Client has failed, the run has ended with an error:
\* neither the Note Generator nor the Result Persister was called, neither
\* transcript.txt nor notes.md exists under the run's output directory, and main
\* prints status "error" and exits non-zero.
C5_TranscriptionFailure ==
    \A r \in Runs :
        "transcribe" \in failed[r] =>
            /\ pc[r] = "error"
            /\ LastStage(r) = "transcribe"
            /\ ~Called(r, "generate_summary") /\ ~Called(r, "generate_notes")
            /\ ~Called(r, "save")
            /\ ~Exists(fs, RunFile(r, "transcript.txt"))
            /\ ~Exists(fs, RunFile(r, "notes.md"))
            /\ response[r].status = "error" /\ response[r].exit # 0

C5_Witness ==
    \E r \in Runs :
        /\ "transcribe" \in failed[r]
        /\ request[r].mode = "analyze"
        /\ Exists(fs, RunDir(r))
        /\ Exists(fs, audio_path[r])

\* C6: once the Result Persister has failed inside save, the run goes on: the
\* record holds the content and the transcript computed before, saved_files is
\* the empty map, the Orchestrator is at (or past) its cleanup step, and a
\* finished run reports success, with both cleanup iterations done unless
\* keep_temp_files is set.
C6_SaveFailureSwallowed ==
    \A r \in Runs :
        "save" \in failed[r] =>
            /\ pc[r] \in {"cleanup_video", "cleanup_audio", "done"}
            /\ DOMAIN result[r].saved_files = {}
            /\ result[r].content = handed[r].content
            /\ result[r].transcript = transcript[r]
            /\ transcript[r] \in Transcripts
            /\ ~config.keep_temp_files /\ pc[r] = "cleanup_video" => cleanupLog[r] = <<>>
            /\ pc[r] = "done" =>
                /\ response[r] = SuccessResponse
                /\ Len(cleanupLog[r]) = (IF config.keep_temp_files THEN 0 ELSE 2)

C6_Witness ==
    \E r \in Runs :
        /\ "save" \in failed[r]
        /\ pc[r] = "done"
        /\ Exists(fs, RunFile(r, "transcript.txt"))
        /\ ~Exists(fs, RunFile(r, "result.json"))
        /\ Len(cleanupLog[r]) = 2

\* C7: nothing is deleted before the Result Persister has returned; with
\* keep_temp_files no deletion is attempted and the video and audio files stay;
\* without it, a finished run of mode transcribe, summary or analyze has gone
\* through the video path and then the audio path, attempting the deletion of
\* each exactly when it existed; a failed deletion never ends the run with an
\* error and never keeps the second path from being handled.
C7_Cleanup ==
    \A r \in Runs :
        /\ cleanupLog[r] # <<>> => Called(r, "save") /\ "saved_files" \in DOMAIN result[r]
        /\ ~Called(r, "save") /\ video_path[r] # NoPath => Exists(fs, video_path[r])
        /\ config.keep_temp_files =>
            /\ cleanupLog[r] = <<>>
            /\ video_path[r] # NoPath => Exists(fs, video_path[r])
            /\ audio_path[r] # NoPath => Exists(fs, audio_path[r])
        /\ "cleanup" \in failed[r] => pc[r] # "error"
        /\ \A i \in 1..Len(cleanupLog[r]) :
            /\ cleanupLog[r][i].attempted = cleanupLog[r][i].existed
            /\ cleanupLog[r][i].deleted => ~Exists(fs, cleanupLog[r][i].path)
        /\ ~config.keep_temp_files /\ pc[r] = "done" /\ request[r].mode # "download" =>
            /\ Len(cleanupLog[r]) = 2
            /\ cleanupLog[r][1].path = video_path[r]
            /\ cleanupLog[r][2].path = audio_path[r]
            /\ cleanupLog[r][2].attempted
            /\ response[r] = SuccessResponse

C7_Witness ==
    \E r \in Runs :
        /\ pc[r] = "done"
        /\ Len(cleanupLog[r]) = 2
        /\ cleanupLog[r][1].attempted /\ ~cleanupLog[r][1].deleted
        /\ cleanupLog[r][2].deleted
        /\ Exists(fs, video_path[r])
        /\ ~Exists(fs, audio_path[r])

\* floor(n / d) for d # 0
FloorDiv(n, d) == IF d > 0 THEN n \div d ELSE (-n) \div (-d)

\* min(floor(d / interval), maxCount) when positive, else 0; d in ticks
ClaimedCount(d, interval, max_count) ==
    LET n == Min(FloorDiv(d, TicksPerSecond * interval), max_count)
    IN  IF n > 0 THEN n ELSE 0

\* ts is step * i for i = 1..count with step = d / (count + 1), strictly
\* increasing, strictly between 0 and d
ClaimedTimestamps(ts, d, count) ==
    /\ Len(ts) = count
    /\ \A i \in 1..Len(ts) :
        /\ ts[i].den > 0
        /\ ts[i].num * TicksPerSecond * (count + 1) = d * i * ts[i].den
        /\ 0 < ts[i].num
        /\ ts[i].num * TicksPerSecond < d * ts[i].den
    /\ \A i \in 1..(Len(ts) - 1) : ts[i].num * ts[i + 1].den < ts[i + 1].num * ts[i].den

\* C8 as claimed: for every duration d > 0 and every configured (interval,
\* maxCount), _calculate_timestamps returns min(floor(d/interval), maxCount)
\* timestamps when that is positive and none otherwise, namely step * i, strictly
\* increasing and strictly inside (0, d).
C8_Original ==
    (probe.kind = "timestamps" /\ probe.applied) =>
        /\ ~probe.out.raised
        /\ probe.interval # 0 =>
            ClaimedTimestamps(probe.out.timestamps, probe.duration,
                              ClaimedCount(probe.duration, probe.interval, probe.max_count))

\* C8 as amended: the same for every configured interval other than 0; with
\* interval 0 the call raises (a division by zero) and returns nothing.
C8_Timestamps ==
    (probe.kind = "timestamps" /\ probe.applied) =>
        /\ probe.interval # 0 =>
            /\ ~probe.out.raised
            /\ ClaimedTimestamps(probe.out.timestamps, probe.duration,
                                 ClaimedCount(probe.duration, probe.interval, probe.max_count))
        /\ probe.interval = 0 => probe.out.raised /\ probe.out.timestamps = <<>>

C8_Witness ==
    /\ probe.kind = "timestamps" /\ probe.applied
    /\ probe.interval = 1
    /\ probe.max_count = 2
    /\ probe.duration = 2 * TicksPerSecond + 50
    /\ Len(probe.out.timestamps) = 2

NotesFile == OutFile(VideoId("r1"), "notes.md")
TranscriptFile == OutFile(VideoId("r1"), "transcript.txt")
JsonFile == OutFile(VideoId("r1"), "result.json")

\* C9 as claimed: after save has been invoked twice with the same record, run id
\* and screenshots, the files are exactly what the first invocation left, and the
\* second invocation returned the same map.
C9_Original ==
    (probe.kind = "save" /\ Len(probe.log) = 2) =>
        /\ probe.log[2].files = probe.log[1].files
        /\ probe.log[2].ret = probe.log[1].ret

\* C9 as amended: when neither invocation fails internally, the second leaves the
\* same set of files, transcript.txt and result.json with the content the first
\* wrote, and notes.md with the content the first wrote except for its
\* analysis-time line, which carries the time of the invocation; every file holds
\* what one invocation wrote (nothing appended), and both return the same map.
C9_SaveTwice ==
    (probe.kind = "save" /\ Len(probe.log) = 2
        /\ probe.log[1].failAt = "none" /\ probe.log[2].failAt = "none") =>
        LET a == probe.log[1].files
            b == probe.log[2].files
        IN  /\ DOMAIN b = DOMAIN a
            /\ DOMAIN a = {OutDir(VideoId("r1")), TranscriptFile, NotesFile, JsonFile}
            /\ b[TranscriptFile] = a[TranscriptFile]
            /\ b[TranscriptFile] = <<probe.result.transcript>>
            /\ b[JsonFile] = a[JsonFile]
            /\ Len(b[NotesFile]) = 1 /\ Len(a[NotesFile]) = 1
            /\ [b[NotesFile][1] EXCEPT !.time = 0] = [a[NotesFile][1] EXCEPT !.time = 0]
            /\ a[NotesFile][1].time = probe.log[1].now
            /\ b[NotesFile][1].time = probe.log[2].now
            /\ probe.log[2].ret = probe.log[1].ret
            /\ DOMAIN probe.log[2].ret = {"transcript", "notes", "json"}

C9_Witness ==
    /\ probe.kind = "save" /\ Len(probe.log) = 2
    /\ probe.log[1].failAt = "none" /\ probe.log[2].failAt = "none"
    /\ probe.log[1].now # probe.log[2].now
    /\ probe.log[2].files[NotesFile] # probe.log[1].files[NotesFile]
    /\ probe.log[2].files[TranscriptFile] = probe.log[1].files[TranscriptFile]

\* C10: two concurrent runs do not interfere: while a run still needs its
\* resolved video file the file exists, and, the tools and endpoints working,
\* every run ends as it does alone: never with an error.
C10_Isolation ==
    \A r \in Runs :
        /\ pc[r] \in {"screenshots", "frames", "audio"} => Exists(fs, video_path[r])
        /\ pc[r] # "error"

\* a run alone, on an input that resolves, with tools and endpoints working,
\* never ends with an error
AloneNeverFails ==
    (~env.faults /\ ~ConstructorRaises(config) /\ request["r1"].url # LocalDoc) =>
        /\ pc["r1"] # "error"
        /\ pc["r1"] \in {"screenshots", "frames", "audio"} => Exists(fs, video_path["r1"])

(***************************************************************************)
(* C11: no external call is retried                                        *)
(***************************************************************************)
ExternalCalls == {"yt_dlp", "ffmpeg_duration", "ffmpeg_frame", "ffmpeg_audio", "whisper", "ai"}
\* the calls whose failure is raised by their component
RaisingCalls == {"yt_dlp", "ffmpeg_audio", "whisper", "ai"}

\* no tool or endpoint is invoked twice in run r (a frame: twice at one timestamp)
IssuedAtMostOnce(r) ==
    \A i, j \in 1..Len(issued[r]) :
        (issued[r][i].call = issued[r][j].call /\ issued[r][i].at = issued[r][j].at) => i = j

\* every frame extraction is at a timestamp the sampler computed
FramesAtSampledTimestamps(r) ==
    \A i \in 1..Len(issued[r]) :
        issued[r][i].call = "ffmpeg_frame" =>
            \E k \in 1..Len(frames[r].timestamps) : issued[r][i].at = <<frames[r].timestamps[k]>>

\* C11 as stated: in a run every external call (downloader, audio extraction,
\* transcription, text generation, duration probe, frame extraction per
\* timestamp) is issued at most once, and whenever one of them failed the run
\* ended with an error.
C11_Original ==
    \A r \in Runs :
        /\ IssuedAtMostOnce(r)
        /\ \A i \in 1..Len(issued[r]) : ~issued[r][i].ok => pc[r] = "error"

\* C11 amended: in a run every external call is issued at most once (a frame
\* extraction at most once per sampled timestamp); a failed downloader, audio
\* extraction, transcription or text-generation call is the last external call
\* of the run, which ends with an error; a failed duration probe or frame
\* extraction is not repeated either, but the run goes on without its result.
C11_NoRetries ==
    \A r \in Runs :
        /\ IssuedAtMostOnce(r)
        /\ FramesAtSampledTimestamps(r)
        /\ \A i \in 1..Len(issued[r]) :
            /\ issued[r][i].call \in ExternalCalls
            /\ (~issued[r][i].ok /\ issued[r][i].call \in RaisingCalls) =>
                   (pc[r] = "error" /\ i = Len(issued[r]))

\* a run whose first frame extraction failed, whose second succeeded and whose
\* transcription request then failed: it ended with an error after five calls
C11_Witness ==
    \E r \in Runs :
        /\ pc[r] = "error"
        /\ Len(issued[r]) = 5
        /\ issued[r][2].call = "ffmpeg_frame" /\ ~issued[r][2].ok
        /\ issued[r][3].call = "ffmpeg_frame" /\ issued[r][3].ok
        /\ issued[r][5].call = "whisper" /\ ~issued[r][5].ok

(***************************************************************************)
(* C12: the Result Record after it was handed to the Result Persister      *)
(***************************************************************************)
\* run r is past save(result, ...) and the two assignments that follow it
PastSave(r) == Called(r, "save") /\ pc[r] \in {"cleanup_video", "cleanup_audio", "done"}

AddedAfterSave == {"saved_files", "screenshots"}

\* C12 as stated: once save(result, ...) has been called, the record of the run
\* equals the record that was handed to save: no field added, removed or changed.
C12_Original ==
    \A r \in Runs : PastSave(r) => result[r] = handed[r]

\* C12 amended: after save(result, ...) no field of the handed record is removed
\* or changed, and exactly the fields saved_files and screenshots are added; the
\* result.json that save wrote holds the record as handed over, without them.
C12_RecordAfterSave ==
    \A r \in Runs :
        PastSave(r) =>
            /\ DOMAIN result[r] = DOMAIN handed[r] \cup AddedAfterSave
            /\ AddedAfterSave \cap DOMAIN handed[r] = {}
            /\ \A k \in DOMAIN handed[r] : result[r][k] = handed[r][k]
            /\ result[r].screenshots = screenshots[r]
            /\ "json" \in DOMAIN result[r].saved_files =>
                   /\ result[r].saved_files.json = RunFile(r, "result.json")
                   /\ Exists(fs, RunFile(r, "result.json")) =>
                          fs[RunFile(r, "result.json")] = <<JsonDump(handed[r])>>

\* a finished analyze run whose save wrote result.json and which had a screenshot
C12_Witness ==
    \E r \in Runs :
        /\ pc[r] = "done"
        /\ request[r].mode = "analyze"
        /\ Called(r, "save")
        /\ Len(screenshots[r]) > 0
        /\ "json" \in DOMAIN result[r].saved_files
        /\ Exists(fs, RunFile(r, "result.json"))

(***************************************************************************)
(* C13: a failed single-frame extraction is skipped                        *)
(***************************************************************************)
\* the extraction at the n-th timestamp of run r was attempted / produced its file
FrameAttempted(r, n) ==
    \E k \in 1..Len(issued[r]) :
        /\ issued[r][k].call = "ffmpeg_frame"
        /\ issued[r][k].at = <<frames[r].timestamps[n]>>
FrameProduced(r, n) ==
    \E k \in 1..Len(issued[r]) :
        issued[r][k] = External("ffmpeg_frame", <<frames[r].timestamps[n]>>, TRUE)

\* screenshot_{i:03}.jpg in the run's screenshots directory
ClaimedFramePath(r, i) ==
    <<"out", VideoId(r), "screenshots",
      [stem |-> "screenshot_", digits |-> <<i \div 100, (i \div 10) % 10, i % 10>>,
       ext |-> ".jpg"]>>

\* the claimed paths of the frames produced among the first n timestamps, in order
RECURSIVE ProducedPaths(_, _)
ProducedPaths(r, n) ==
    IF n = 0 THEN <<>>
    ELSE IF FrameProduced(r, n) THEN Append(ProducedPaths(r, n - 1), ClaimedFramePath(r, n))
    ELSE ProducedPaths(r, n - 1)

\* the timestamps of run r are strictly increasing
TimestampsIncrease(r) ==
    \A a, b \in 1..Len(frames[r].timestamps) :
        a < b => frames[r].timestamps[a].num * frames[r].timestamps[b].den
                 < frames[r].timestamps[b].num * frames[r].timestamps[a].den

\* C13: a single-frame extraction that fails is skipped without failing the
\* stage: the sequence of screenshots holds exactly the paths of the frames
\* produced, in increasing timestamp order, the i-th timestamp's file being
\* screenshot_{i:03}.jpg whether or not earlier frames were skipped; every
\* timestamp is attempted, also after a failure, and a run that went through the
\* Frame Sampler and ended with an error failed in a later stage.
C13_FrameSkipped ==
    \A r \in Runs :
        LET done == frames[r].next - 1
        IN  /\ done \in 0..Len(frames[r].timestamps)
            /\ TimestampsIncrease(r)
            /\ \A n \in 1..Len(frames[r].timestamps) : FrameAttempted(r, n) <=> n <= done
            /\ screenshots[r] = ProducedPaths(r, done)
            /\ \A n \in 1..done : FrameProduced(r, n) <=> Exists(fs, ClaimedFramePath(r, n))
            /\ pc[r] \notin {"main", "resolve", "screenshots", "frames", "off"}
                   => done = Len(frames[r].timestamps)
            /\ (Called(r, "screenshots") /\ pc[r] = "error") => Called(r, "audio")

\* of two timestamps the first extraction failed and the second produced
\* screenshot_002.jpg, the only screenshot of the run, which went on
C13_Witness ==
    \E r \in Runs :
        /\ Len(frames[r].timestamps) = 2
        /\ frames[r].next = 3
        /\ ~FrameProduced(r, 1)
        /\ screenshots[r] = <<ClaimedFramePath(r, 2)>>
        /\ Exists(fs, ClaimedFramePath(r, 2))
        /\ pc[r] = "done"

(***************************************************************************)
(* C14: a local input file is the run's video file, and cleanup deletes it *)
(***************************************************************************)
\* run r was given a local file and the Source Resolver returned
LocalInputResolved(r) ==
    /\ request[r].url \in {LocalClip, FileUriClip}
    /\ video_path[r] # NoPath

\* run r succeeded in a mode that reaches cleanup, with keep_temp_files false
CleanedUpRun(r) ==
    /\ pc[r] = "done"
    /\ request[r].mode \in {"transcribe", "summary", "analyze"}
    /\ ~config.keep_temp_files

\* the resolver returned the very input file: no downloader run, no copy made
ResolvedInPlace(r) ==
    /\ video_path[r] = request[r].url.path
    /\ ~Exists(fs, TempVideo(r))
    /\ \A k \in 1..Len(issued[r]) : issued[r][k].call # "yt_dlp"

\* C14 as stated: for a local input the Source Resolver returns that very file
\* and makes no copy, and after a successful run in mode transcribe, summary or
\* analyze with keep_temp_files false the input path no longer exists.
C14_Original ==
    \A r \in Runs :
        LocalInputResolved(r) =>
            /\ ResolvedInPlace(r)
            /\ CleanedUpRun(r) => ~Exists(fs, request[r].url.path)

\* C14 amended: for a local input the Source Resolver returns that very file and
\* makes no copy; a successful run in mode transcribe, summary or analyze with
\* keep_temp_files false attempts to delete the input file in cleanup, and after
\* the run the input path no longer exists unless that deletion failed (the
\* failure is swallowed and the run still succeeds).
C14_LocalInputDeleted ==
    \A r \in Runs :
        LocalInputResolved(r) =>
            /\ ResolvedInPlace(r)
            /\ CleanedUpRun(r) =>
                   /\ cleanupLog[r][1].path = request[r].url.path
                   /\ cleanupLog[r][1].attempted
                   /\ cleanupLog[r][1].deleted <=> ~Exists(fs, request[r].url.path)
                   /\ ~cleanupLog[r][1].deleted => "cleanup" \in failed[r]
            /\ (pc[r] = "done" /\ (config.keep_temp_files \/ request[r].mode = "download"))
                   => Exists(fs, request[r].url.path)

\* a successful analyze run on the local clip after which the clip is gone
C14_Witness ==
    \E r \in Runs :
        /\ LocalInputResolved(r)
        /\ CleanedUpRun(r)
        /\ request[r].mode = "analyze"
        /\ request[r].url = LocalClip
        /\ ~Exists(fs, InputClip)
        /\ InputClip \in DOMAIN InitialFiles

(***************************************************************************)
(* C15: an empty key or URL fails the construction, in every mode          *)
(***************************************************************************)
\* one of the four credentials of the configuration is empty
SomeCredentialEmpty ==
    \/ config.whisper_api_key = ""
    \/ config.whisper_api_url = ""
    \/ config.ai_api_key = ""
    \/ config.ai_api_url = ""

\* C15: if the transcription key or URL or the text-generation key or URL is
\* empty, constructing the Orchestrator fails: every run, in every mode, ends
\* with status error before the Source Resolver is invoked and before any
\* external process or endpoint is called.
C15_EmptyCredentials ==
    \A r \in Runs :
        (SomeCredentialEmpty /\ pc[r] \notin {"off", "main"}) =>
            /\ pc[r] = "error"
            /\ response[r] = ErrorResponse
            /\ failed[r] = {"construct"}
            /\ calls[r] = <<>>
            /\ issued[r] = <<>>
            /\ video_path[r] = NoPath
            /\ ~Exists(fs, TempVideo(r)) /\ ~Exists(fs, TempAudio(r)) /\ ~Exists(fs, RunDir(r))

\* a download run that ended with an error although only the text-generation
\* URL, which download never uses, was empty
C15_Witness ==
    \E r \in Runs :
        /\ request[r].mode = "download"
        /\ config.whisper_api_key = "set" /\ config.whisper_api_url = "set"
        /\ config.ai_api_key = "set" /\ config.ai_api_url = ""
        /\ pc[r] = "error"
        /\ response[r] = ErrorResponse

(***************************************************************************)
(* C16: cleanup runs only on the success path                              *)
(***************************************************************************)
LateFailures == {"audio", "transcribe", "generate"}

\* C16: if the Audio Extractor, the Transcription Client or the Note Generator
\* fails, the run ends with an error without deleting anything: no cleanup step
\* ran, and the resolved video file and any audio file already extracted still
\* exist when the run has ended, whatever keep_temp_files is.
C16_NoCleanupOnFailure ==
    \A r \in Runs :
        (pc[r] = "error" /\ failed[r] \cap LateFailures # {}) =>
            /\ cleanupLog[r] = <<>>
            /\ ~Called(r, "cleanup")
            /\ video_path[r] # NoPath /\ Exists(fs, video_path[r])
            /\ audio_path[r] # NoPath => Exists(fs, audio_path[r])
            /\ (Called(r, "transcribe") \/ Called(r, "generate_notes")
                    \/ Called(r, "generate_summary")) => audio_path[r] # NoPath
            /\ \A p \in DOMAIN InitialFiles : Exists(fs, p)

\* with keep_temp_files false, a run on a downloaded video whose text generation
\* failed: it ended with an error and its video and audio files are still there
C16_Witness ==
    \E r \in Runs :
        /\ ~config.keep_temp_files
        /\ pc[r] = "error"
        /\ "generate" \in failed[r]
        /\ video_path[r] = TempVideo(r) /\ Exists(fs, TempVideo(r))
        /\ audio_path[r] = TempAudio(r) /\ Exists(fs, TempAudio(r))


====
